---- MODULE Spec2Model ----
(***************************************************************************)
(* Epsilon-greedy bandit experiment of src/ab_testing.py: RandomEvent      *)
(* (one arm: running estimate, pull counter, history) and Experiment (the  *)
(* selection loop and its counters).                                       *)
(*                                                                         *)
(* Python floats are IEEE-754 binary64.  The model computes them exactly:  *)
(* a float is a sign, a 53-bit significand held as a little-endian         *)
(* sequence of 15-bit limbs, and a binary exponent; every arithmetic       *)
(* operation rounds its exact result to nearest, ties to even.             *)
(*                                                                         *)
(* Spec: an Experiment, its run() calls and the caller's reseeding of the  *)
(* two generators.  SpecArm: one RandomEvent and its update.  SpecEps:     *)
(* epsilon_func over the iteration indices.                                *)
(***************************************************************************)
EXTENDS Integers, Sequences, FiniteSets

----------------------------------------------------------------------------
(* Natural numbers of arbitrary size: little-endian limbs, no high zero.   *)

Base == 2^15

RECURSIVE BNorm(_)
BNorm(a) ==
    IF a = <<>> THEN a
    ELSE IF a[Len(a)] = 0 THEN BNorm(SubSeq(a, 1, Len(a) - 1)) ELSE a

BFromInt(n) ==
    BNorm(<<n % Base, (n \div Base) % Base, n \div (Base * Base)>>)

RECURSIVE BCmpFrom(_, _, _)
BCmpFrom(a, b, i) ==
    IF i = 0 THEN 0
    ELSE IF a[i] < b[i] THEN -1
    ELSE IF a[i] > b[i] THEN 1
    ELSE BCmpFrom(a, b, i - 1)

\* -1, 0, 1 as a < b, a = b, a > b
BCmp(a, b) ==
    IF Len(a) < Len(b) THEN -1
    ELSE IF Len(a) > Len(b) THEN 1
    ELSE BCmpFrom(a, b, Len(a))

RECURSIVE BAddC(_, _, _)
BAddC(a, b, c) ==
    IF a = <<>> /\ b = <<>> THEN (IF c = 0 THEN <<>> ELSE <<c>>)
    ELSE LET x == IF a = <<>> THEN 0 ELSE Head(a)
             y == IF b = <<>> THEN 0 ELSE Head(b)
             s == x + y + c
         IN  <<s % Base>> \o BAddC(IF a = <<>> THEN a ELSE Tail(a),
                                   IF b = <<>> THEN b ELSE Tail(b),
                                   s \div Base)

BAdd(a, b) == BAddC(a, b, 0)

RECURSIVE BSubC(_, _, _)
BSubC(a, b, c) ==
    IF a = <<>> THEN <<>>
    ELSE LET y == IF b = <<>> THEN 0 ELSE Head(b)
             d == Head(a) - y - c
         IN  <<d % Base>> \o BSubC(Tail(a),
                                   IF b = <<>> THEN b ELSE Tail(b),
                                   IF d < 0 THEN 1 ELSE 0)

\* a - b for a >= b
BSub(a, b) == BNorm(BSubC(a, b, 0))

RECURSIVE BMulC(_, _, _)
BMulC(a, k, c) ==
    IF a = <<>> THEN (IF c = 0 THEN <<>> ELSE <<c>>)
    ELSE LET p == Head(a) * k + c
         IN  <<p % Base>> \o BMulC(Tail(a), k, p \div Base)

\* a * k for 0 <= k < Base
BMulSmall(a, k) == BNorm(BMulC(a, k, 0))

RECURSIVE BDivC(_, _, _, _)
BDivC(a, k, i, r) ==
    IF i = 0 THEN <<>>
    ELSE LET x == r * Base + a[i]
         IN  BDivC(a, k, i - 1, x % k) \o <<x \div k>>

\* floor(a / k) for 0 < k <= Base
BDivSmall(a, k) == BNorm(BDivC(a, k, Len(a), 0))

\* a * 2^n
BShl(a, n) ==
    IF a = <<>> THEN a
    ELSE [i \in 1..(n \div 15) |-> 0] \o BMulSmall(a, 2^(n % 15))

\* floor(a / 2^n)
BShr(a, n) ==
    IF Len(a) <= n \div 15 THEN <<>>
    ELSE BDivSmall(SubSeq(a, (n \div 15) + 1, Len(a)), 2^(n % 15))

RECURSIVE BitsOf(_)
BitsOf(x) == IF x = 0 THEN 0 ELSE 1 + BitsOf(x \div 2)

\* number of binary digits of a (0 for zero)
BBitLen(a) == IF a = <<>> THEN 0 ELSE 15 * (Len(a) - 1) + BitsOf(a[Len(a)])

BOdd(a) == a # <<>> /\ a[1] % 2 = 1

\* Long division of n by b in base Base, for a b whose top limb is at least
\* Base / 2: the limbs n[i], n[i-1], ... are brought down onto the remainder
\* r one at a time; the quotient digit is estimated from the top limbs (it
\* is at most 2 too large) and corrected.  q: the digits found so far.
RECURSIVE BDivLong(_, _, _, _, _)
BDivLong(n, b, i, r, q) ==
    IF i = 0 THEN [q |-> BNorm(q), inexact |-> r # <<>>]
    ELSE LET len  == Len(b)
             r1   == BNorm(<<n[i]>> \o r)
             top  == (IF Len(r1) > len THEN r1[len + 1] ELSE 0) * Base
                     + (IF Len(r1) >= len THEN r1[len] ELSE 0)
             est  == top \div b[len]
             q0   == IF est > Base - 1 THEN Base - 1 ELSE est
             p0   == BMulSmall(b, q0)
             over == IF BCmp(p0, r1) <= 0 THEN 0
                     ELSE IF BCmp(BSub(p0, b), r1) <= 0 THEN 1 ELSE 2
             d    == q0 - over
             r2   == BSub(r1, BMulSmall(b, d))
         IN  BDivLong(n, b, i - 1, r2, <<d>> \o q)

\* floor(a * 2^k / b) and whether a remainder was left, b > 0
BDiv(a, k, b) ==
    LET s == 15 * Len(b) - BBitLen(b)
        n == BShl(a, k + s)
    IN  BDivLong(n, BShl(b, s), Len(n), <<>>, <<>>)

----------------------------------------------------------------------------
(* binary64: value (-1)^s * m * 2^e with 2^52 <= m < 2^53, or zero.        *)

FZero == [s |-> 0, m |-> <<>>, e |-> 0]

\* round the exact value (-1)^s * (n + d) * 2^e, with 0 <= d < 1 and d > 0
\* iff sticky, to the nearest binary64, ties to even.  A sticky n has at
\* least 54 bits (FDiv passes 55 or 56).
FRound(s, n, e, sticky) ==
    IF n = <<>> THEN FZero
    ELSE LET len == BBitLen(n)
         IN  IF len <= 53
             THEN [s |-> s, m |-> BShl(n, 53 - len), e |-> e - (53 - len)]
             ELSE LET drop == len - 53
                      keep == BShr(n, drop)
                      rem  == BSub(n, BShl(keep, drop))
                      c    == BCmp(rem, BShl(<<1>>, drop - 1))
                      up   == c > 0 \/ (c = 0 /\ (sticky \/ BOdd(keep)))
                      m    == IF up THEN BAdd(keep, <<1>>) ELSE keep
                  IN  IF BBitLen(m) = 54
                      THEN [s |-> s, m |-> BShr(m, 1), e |-> e + drop + 1]
                      ELSE [s |-> s, m |-> m, e |-> e + drop]

\* int -> float, 0 <= n < 2^31 (exact)
FFromInt(n) == FRound(0, BFromInt(n), 0, FALSE)

FNeg(x) == IF x.m = <<>> THEN x ELSE [x EXCEPT !.s = 1 - x.s]

\* x + y
FAdd(x, y) ==
    IF x.m = <<>> THEN y
    ELSE IF y.m = <<>> THEN x
    ELSE LET e  == IF x.e < y.e THEN x.e ELSE y.e
             nx == BShl(x.m, x.e - e)
             ny == BShl(y.m, y.e - e)
             c  == BCmp(nx, ny)
         IN  IF x.s = y.s THEN FRound(x.s, BAdd(nx, ny), e, FALSE)
             ELSE IF c = 0 THEN FZero
             ELSE IF c > 0 THEN FRound(x.s, BSub(nx, ny), e, FALSE)
             ELSE FRound(y.s, BSub(ny, nx), e, FALSE)

\* x - y
FSub(x, y) == FAdd(x, FNeg(y))

\* x / y, y # 0: 55 or 56 quotient bits and the remainder as sticky
FDiv(x, y) ==
    IF x.m = <<>> THEN FZero
    ELSE LET d == BDiv(x.m, 55, y.m)
         IN  FRound((x.s + y.s) % 2, d.q, x.e - y.e - 55, d.inexact)

\* x * k for an int 0 <= k < 2^15 (the exact product, rounded once)
FMulInt(x, k) == FRound(x.s, BMulSmall(x.m, k), x.e, FALSE)

\* x < y
FLt(x, y) ==
    IF x.m = <<>> /\ y.m = <<>> THEN FALSE
    ELSE IF x.m = <<>> THEN y.s = 0
    ELSE IF y.m = <<>> THEN x.s = 1
    ELSE IF x.s # y.s THEN x.s = 1
    ELSE LET e  == IF x.e < y.e THEN x.e ELSE y.e
             c  == BCmp(BShl(x.m, x.e - e), BShl(y.m, y.e - e))
         IN  IF x.s = 0 THEN c < 0 ELSE c > 0

----------------------------------------------------------------------------
(* Bounds of the model.                                                    *)

\* largest configured number of iterations
MaxIter == 3
\* iterations executed by all the run() calls of one Experiment together
MaxSteps == 3
\* run() calls on one Experiment
MaxRuns == 2
\* updates fed to the single arm of SpecArm
MaxUpdates == 7
\* iteration indices of SpecEps
MaxT == 24

\* a float literal num/den (the nearest binary64, as Python reads it)
Lit(num, den) == FDiv(FFromInt(num), FFromInt(den))

FOne == FFromInt(1)

\* the configurations: true win rates
ProbChoices ==
    { <<Lit(1, 2)>>,
      <<FZero, FOne>>,
      <<Lit(1, 2), Lit(1, 2)>> }

EpsilonChoices == { FZero, Lit(1, 10) }

\* what random.random() and np.random.random() may return: representatives
\* of [0, 1)
UniformChoices == { FZero, Lit(99, 100) }

----------------------------------------------------------------------------
VARIABLES
    probs, initial_epsilon, iterations,      \* Experiment's configuration
    num_explored, num_exploited, num_optimal,
    pc,                \* "new", "loop" (inside run()), "done" (run() returned)
    optimal_index, events, results, t, epsilon,  \* the locals of run()
    pyTape, pyPos,     \* module random: values returned since seeding, position
    npTape, npPos,     \* np.random: the same
    runs,              \* completed run() calls
    choices,           \* per iteration of this run: the arm selected, and how
    fromSeed,          \* this run began right after seeding
    reports,           \* what completed runs that began at the seed reported
    fed                \* SpecArm: the outcomes passed to update

vars == <<probs, initial_epsilon, iterations, num_explored, num_exploited,
          num_optimal, pc, optimal_index, events, results, t, epsilon,
          pyTape, pyPos, npTape, npPos, runs, choices, fromSeed, reports, fed>>

config == <<probs, initial_epsilon, iterations>>
counters == <<num_explored, num_exploited, num_optimal>>
generators == <<pyTape, pyPos, npTape, npPos>>

----------------------------------------------------------------------------
(* RandomEvent                                                             *)

\* a RandomEvent whose pull counter starts at 1
RandomEvent_CountFromOne(winrate) ==
    [winrate |-> winrate, estimate |-> FZero, N |-> 1, history |-> <<>>]

RandomEvent(winrate) ==
    [winrate |-> winrate, estimate |-> FZero, N |-> 0, history |-> <<>>]

\* an update that moves the estimate by a fixed half step
update_FixedStep(self, result) ==
    LET n   == self.N + 1
        est == FAdd(self.estimate,
                    FDiv(FSub(FFromInt(result), self.estimate), FFromInt(2)))
    IN  [self EXCEPT !.N = n, !.estimate = est,
                     !.history = Append(@, <<n, est>>)]

\* an update that records the estimate it had before the result
update_StaleHistory(self, result) ==
    LET n   == self.N + 1
        est == FAdd(self.estimate,
                    FDiv(FSub(FFromInt(result), self.estimate), FFromInt(n)))
    IN  [self EXCEPT !.N = n, !.estimate = est,
                     !.history = Append(@, <<n, self.estimate>>)]

\* RandomEvent.update: result is 0 or 1
update(self, result) ==
    LET n   == self.N + 1
        est == FAdd(self.estimate,
                    FDiv(FSub(FFromInt(result), self.estimate), FFromInt(n)))
    IN  [self EXCEPT !.N = n, !.estimate = est,
                     !.history = Append(@, <<n, est>>)]

\* RandomEvent.pull, given what np.random.random() returned
pull(self, u) == IF FLt(u, self.winrate) THEN 1 ELSE 0

----------------------------------------------------------------------------
(* Experiment                                                              *)

\* a schedule whose denominator shrinks
epsilon_func_Growing(val, i) == FDiv(val, FSub(FOne, FMulInt(Lit(1, 100), i)))

\* Experiment.epsilon_func: val / (0.01 * t + 1)
epsilon_func(val, i) == FDiv(val, FAdd(FMulInt(Lit(1, 100), i), FOne))

\* np.argmax over a non-empty sequence: the 0-based index of the first
\* maximum (a left-to-right scan that moves on a strictly greater value)
RECURSIVE ArgMaxFrom(_, _, _)
ArgMaxFrom(xs, i, best) ==
    IF i > Len(xs) THEN best - 1
    ELSE ArgMaxFrom(xs, i + 1, IF FLt(xs[best], xs[i]) THEN i ELSE best)

\* an argmax that moves on an equal value too: the last maximum
RECURSIVE ArgMaxLastFrom(_, _, _)
ArgMaxLastFrom(xs, i, best) ==
    IF i > Len(xs) THEN best - 1
    ELSE ArgMaxLastFrom(xs, i + 1, IF FLt(xs[i], xs[best]) THEN best ELSE i)

argmax_LastMaximum(xs) == ArgMaxLastFrom(xs, 2, 1)

argmax(xs) == ArgMaxFrom(xs, 2, 1)

\* the values a generator may return next: the recorded one when the call
\* repeats one made since the same seeding, any value otherwise
NextDraw(tape, pos, kind, dom) ==
    IF pos < Len(tape) /\ tape[pos + 1].kind = kind /\ tape[pos + 1].val \in dom
    THEN {tape[pos + 1].val}
    ELSE dom

\* the record of a generator after it returned val at pos: unchanged when
\* that repeats the record, else cut at pos and continued with val
Drawn(tape, pos, kind, val) ==
    IF pos < Len(tape) /\ tape[pos + 1] = [kind |-> kind, val |-> val]
    THEN tape
    ELSE Append(SubSeq(tape, 1, pos), [kind |-> kind, val |-> val])

Init ==
    /\ probs \in ProbChoices
    /\ initial_epsilon \in EpsilonChoices
    /\ iterations \in 0..MaxIter
    /\ num_explored = 0 /\ num_exploited = 0 /\ num_optimal = 0
    /\ pc = "new"
    /\ optimal_index = 0 /\ events = <<>> /\ results = <<>> /\ t = 0
    /\ epsilon = FZero
    /\ pyTape = <<>> /\ pyPos = 0 /\ npTape = <<>> /\ npPos = 0
    /\ runs = 0 /\ choices = <<>> /\ fromSeed = FALSE /\ reports = <<>>
    /\ fed = <<>>

\* run(), up to the loop (the counters' sum is the number of iterations all
\* the runs have executed)
RunBegin ==
    /\ pc \in {"new", "done"}
    /\ runs < MaxRuns
    /\ num_explored + num_exploited + iterations <= MaxSteps
    /\ optimal_index' = argmax(probs)
    /\ events' = [i \in 1..Len(probs) |-> RandomEvent(probs[i])]
    /\ results' = [i \in 1..iterations |-> 0]
    /\ t' = 0
    /\ pc' = "loop"
    /\ choices' = <<>>
    /\ fromSeed' = (pyPos = 0 /\ npPos = 0)
    /\ UNCHANGED <<config, counters, epsilon, generators, runs, reports, fed>>

\* one iteration of the loop
Iterate ==
    /\ pc = "loop"
    /\ t < iterations
    /\ LET eps == epsilon_func(initial_epsilon, t)
       IN
       \E u \in NextDraw(pyTape, pyPos, "random", UniformChoices) :
         LET tape1   == Drawn(pyTape, pyPos, "random", u)
             explore == FLt(u, eps)
         IN
         \E c \in (IF explore
                   THEN NextDraw(tape1, pyPos + 1, "choice", 0..(Len(events) - 1))
                   ELSE {argmax([i \in 1..Len(events) |-> events[i].estimate])}) :
         \E v \in NextDraw(npTape, npPos, "random", UniformChoices) :
           LET selected_event == c
               result == pull(events[selected_event + 1], v)
           IN
           /\ epsilon' = eps
           /\ pyTape' = IF explore THEN Drawn(tape1, pyPos + 1, "choice", c)
                        ELSE tape1
           /\ pyPos' = IF explore THEN pyPos + 2 ELSE pyPos + 1
           /\ npTape' = Drawn(npTape, npPos, "random", v)
           /\ npPos' = npPos + 1
           /\ num_explored' = IF explore THEN num_explored + 1 ELSE num_explored
           /\ num_exploited' = IF explore THEN num_exploited ELSE num_exploited + 1
           /\ num_optimal' = IF selected_event = optimal_index
                             THEN num_optimal + 1 ELSE num_optimal
           /\ results' = [results EXCEPT ![t + 1] = result]
           /\ events' = [events EXCEPT ![selected_event + 1] = update(@, result)]
           /\ choices' = Append(choices, [arm |-> selected_event, explore |-> explore])
           /\ t' = t + 1
    /\ UNCHANGED <<config, pc, optimal_index, runs, fromSeed, reports, fed>>

\* what a completed run shows: the printed counters, the outcomes behind the
\* printed success rate, the plotted histories
Report ==
    [num_explored |-> num_explored, num_exploited |-> num_exploited,
     num_optimal |-> num_optimal, results |-> results,
     history |-> [i \in 1..Len(events) |-> events[i].history]]

\* run(), after the loop
RunEnd ==
    /\ pc = "loop"
    /\ t = iterations
    /\ pc' = "done"
    /\ runs' = runs + 1
    /\ reports' = IF fromSeed THEN Append(reports, Report) ELSE reports
    /\ UNCHANGED <<config, counters, optimal_index, events, results, t, epsilon,
                   generators, choices, fromSeed, fed>>

\* the caller seeds both generators again with the seed they had
Seed ==
    /\ pc \in {"new", "done"}
    /\ pyPos + npPos > 0
    /\ pyPos' = 0 /\ npPos' = 0
    /\ UNCHANGED <<config, counters, pc, optimal_index, events, results, t,
                   epsilon, pyTape, npTape, runs, choices, fromSeed, reports, fed>>

Next == RunBegin \/ Iterate \/ RunEnd \/ Seed

Spec == Init /\ [][Next]_vars

----------------------------------------------------------------------------
(* One RandomEvent fed any outcomes.                                       *)

ArmInit ==
    /\ probs = <<Lit(1, 2)>>
    /\ initial_epsilon = FZero
    /\ iterations = 0
    /\ num_explored = 0 /\ num_exploited = 0 /\ num_optimal = 0
    /\ pc = "arm"
    /\ optimal_index = 0 /\ events = <<RandomEvent(probs[1])>>
    /\ results = <<>> /\ t = 0 /\ epsilon = FZero
    /\ pyTape = <<>> /\ pyPos = 0 /\ npTape = <<>> /\ npPos = 0
    /\ runs = 0 /\ choices = <<>> /\ fromSeed = FALSE /\ reports = <<>>
    /\ fed = <<>>

ArmUpdate ==
    /\ pc = "arm"
    /\ Len(fed) < MaxUpdates
    /\ \E result \in {0, 1} :
         /\ events' = [events EXCEPT ![1] = update(@, result)]
         /\ fed' = Append(fed, result)
    /\ UNCHANGED <<config, counters, pc, optimal_index, results, t, epsilon,
                   generators, runs, choices, fromSeed, reports>>

SpecArm == ArmInit /\ [][ArmUpdate]_vars

----------------------------------------------------------------------------
(* The schedule alone, over the iteration indices.                         *)

EpsilonSweep == { FZero, Lit(1, 20), Lit(1, 10), Lit(1, 2), FOne, Lit(5, 2) }

EpsInit ==
    /\ probs = <<Lit(1, 2)>>
    /\ initial_epsilon \in EpsilonSweep
    /\ iterations = 0
    /\ num_explored = 0 /\ num_exploited = 0 /\ num_optimal = 0
    /\ pc = "eps"
    /\ optimal_index = 0 /\ events = <<>> /\ results = <<>> /\ t = 0
    /\ epsilon = epsilon_func(initial_epsilon, 0)
    /\ pyTape = <<>> /\ pyPos = 0 /\ npTape = <<>> /\ npPos = 0
    /\ runs = 0 /\ choices = <<>> /\ fromSeed = FALSE /\ reports = <<>>
    /\ fed = <<>>

EpsStep ==
    /\ pc = "eps"
    /\ t < MaxT
    /\ t' = t + 1
    /\ epsilon' = epsilon_func(initial_epsilon, t + 1)
    /\ UNCHANGED <<config, counters, pc, optimal_index, events, results,
                   generators, runs, choices, fromSeed, reports, fed>>

SpecEps == EpsInit /\ [][EpsStep]_vars

----------------------------------------------------------------------------
(* The claims.                                                             *)

RECURSIVE SumSeq(_)
SumSeq(xs) == IF xs = <<>> THEN 0 ELSE Head(xs) + SumSeq(Tail(xs))

Explored == {i \in DOMAIN choices : choices[i].explore}
Exploited == {i \in DOMAIN choices : ~choices[i].explore}
Optimal == {i \in DOMAIN choices : choices[i].arm = optimal_index}

\* C1: after any completed run(), num_explored + num_exploited = iterations.
C1_ExplorePlusExploit ==
    pc = "done" => num_explored + num_exploited = iterations

\* C2, as claimed: after n >= 1 updates N = n and estimate * n equals the
\* number of successes (the product as Python computes it).
C2_ExactMean ==
    Len(fed) >= 1 =>
        /\ events[1].N = Len(fed)
        /\ FMulInt(events[1].estimate, Len(fed)) = FFromInt(SumSeq(fed))

\* |x * n - k| <= n * n * 2^-52 in exact arithmetic, for a float x <= 2
WithinTolerance(x, n, k) ==
    IF x.m = <<>> THEN k = 0
    ELSE /\ x.s = 0
         /\ x.e <= -52
         /\ LET xn   == BMulSmall(x.m, n)
                kk   == BShl(BFromInt(k), -x.e)
                diff == IF BCmp(xn, kk) >= 0 THEN BSub(xn, kk) ELSE BSub(kk, xn)
            IN  BCmp(diff, BShl(BFromInt(n * n), -x.e - 52)) <= 0

\* C2, amended: after n >= 1 updates N = n, and the estimate is the mean of
\* the n outcomes up to rounding: |estimate * n - successes| <= n^2 * 2^-52.
C2_MeanWithinTolerance ==
    Len(fed) >= 1 =>
        /\ events[1].N = Len(fed)
        /\ WithinTolerance(events[1].estimate, Len(fed), SumSeq(fed))

\* three updates after which the estimate is not the nearest float to the mean
C2_RoundedMean ==
    /\ Len(fed) = 3
    /\ SumSeq(fed) = 1
    /\ events[1].estimate # Lit(1, 3)

\* C3: every run() starts with fresh arms, and the counters a completed run
\* reports count the iterations of that run only.
C3_NothingPersists ==
    /\ (pc = "loop" /\ t = 0) =>
           events = [i \in 1..Len(probs) |-> RandomEvent(probs[i])]
    /\ pc = "done" =>
           /\ num_explored = Cardinality(Explored)
           /\ num_exploited = Cardinality(Exploited)
           /\ num_optimal = Cardinality(Optimal)

\* C4: runs of one configuration that consume the same draws report the same
\* histories, outcomes and counters.
C4_Deterministic ==
    \A i, j \in DOMAIN reports : reports[i] = reports[j]

\* C5: with initial_epsilon = 0 the schedule yields 0, no iteration explores,
\* and num_exploited = iterations when run() ends.
C5_NeverExplores ==
    initial_epsilon = FZero =>
        /\ epsilon = FZero
        /\ num_explored = 0
        /\ pc = "done" => num_exploited = iterations

\* C6: epsilon_func(e0, 0) = e0, and epsilon_func(e0, t + 1) <= epsilon_func(e0, t)
\* for e0 >= 0 (epsilon is epsilon_func(initial_epsilon, t) in SpecEps).
C6_ScheduleNonIncreasing ==
    /\ epsilon_func(initial_epsilon, 0) = initial_epsilon
    /\ ~FLt(epsilon, epsilon_func(initial_epsilon, t + 1))

C6_ScheduleDecayed == t >= 1 /\ FLt(epsilon, initial_epsilon)

\* C7: with one arm every selection is arm 0, and after a completed run()
\* num_optimal = iterations = num_explored + num_exploited.
C7_SingleArm ==
    Len(probs) = 1 =>
        /\ \A i \in DOMAIN choices : choices[i].arm = 0
        /\ pc = "done" =>
               /\ num_optimal = iterations
               /\ num_explored + num_exploited = iterations

\* arm a (0-based) holds the first maximum of the estimates
FirstMaximum(evs, a) ==
    /\ \A j \in DOMAIN evs : ~FLt(evs[a + 1].estimate, evs[j].estimate)
    /\ \A j \in 1..a : FLt(evs[j].estimate, evs[a + 1].estimate)

\* C8: an iteration that exploits selects the lowest-indexed arm whose
\* estimate is maximal; with all estimates 0 that is arm 0.
C8_ExploitSelectsFirstMaximum ==
    [][ (pc = "loop" /\ num_exploited' = num_exploited + 1) =>
          \A a \in 0..(Len(events) - 1) :
              events'[a + 1].N # events[a + 1].N =>
                  /\ FirstMaximum(events, a)
                  /\ (\A j \in DOMAIN events : events[j].estimate = FZero)
                         => a = 0 ]_vars

\* an exploiting iteration selected arm 1
C8_ExploitedSecondArm ==
    \E i \in DOMAIN choices : ~choices[i].explore /\ choices[i].arm = 1

HistoryShape(ev) ==
    /\ Len(ev.history) = ev.N
    /\ \A k \in DOMAIN ev.history : ev.history[k][1] = k
    /\ ev.N > 0 => ev.history[ev.N][2] = ev.estimate

\* C9: during a run every arm's history has one entry per update, the k-th
\* with pull count k, the last with the current estimate, and a step only
\* ever appends to it.
C9_HistoryAppendOnly ==
    /\ \A i \in DOMAIN events : HistoryShape(events[i])
    /\ [][ /\ \A i \in DOMAIN events' : HistoryShape(events'[i])
           /\ pc = "loop" =>
                \A i \in DOMAIN events :
                    /\ Len(events'[i].history) \in
                           {Len(events[i].history), Len(events[i].history) + 1}
                    /\ SubSeq(events'[i].history, 1, Len(events[i].history))
                           = events[i].history
                    /\ Len(events'[i].history) - Len(events[i].history)
                           = events'[i].N - events[i].N ]_vars

C9_TwoEntries ==
    \E i \in DOMAIN events :
        /\ Len(events[i].history) >= 2
        /\ events[i].history[1][2] # events[i].history[2][2]

\* the first index (0-based) of the maximal true probability
FirstOptimal ==
    CHOOSE a \in 0..(Len(probs) - 1) :
        /\ \A j \in DOMAIN probs : ~FLt(probs[a + 1], probs[j])
        /\ \A j \in 1..a : FLt(probs[j], probs[a + 1])

FirstRunBoundary ==
    (runs = 0 /\ pc = "loop") =>
        /\ optimal_index = FirstOptimal
        /\ num_optimal = events[optimal_index + 1].N
        /\ SumSeq([i \in DOMAIN events |-> events[i].N]) = t

\* C10: in the first run() of an Experiment, after every iteration
\* num_optimal is the pull count of the arm at the first maximal probability
\* and the pull counts sum to the iterations executed; an iteration changes
\* one arm only.
C10_OptimalCountAndFrame ==
    /\ FirstRunBoundary
    /\ [][ /\ FirstRunBoundary'
           /\ (pc = "loop" /\ t' = t + 1) =>
                \E a \in DOMAIN events :
                    /\ events'[a].N = events[a].N + 1
                    /\ \A j \in DOMAIN events \ {a} : events'[j] = events[j] ]_vars

C10_BothArmsPulled ==
    /\ runs = 0 /\ pc = "loop" /\ Len(events) = 2
    /\ events[1].N >= 1 /\ events[2].N >= 1
    /\ optimal_index = 1

====
